---- MODULE Spec2Model ----
(***************************************************************************)
(* RSVP speed reader (src/src/lib.rs): the upload mailbox, the RsvpState   *)
(* resource and the three per-frame systems file_listener_system,          *)
(* ui_controls_system and rsvp_tick_system, which Bevy runs once per frame *)
(* in no fixed relative order (they are registered unchained and all take  *)
(* ResMut<RsvpState>, so they never overlap).                              *)
(*                                                                         *)
(* Time is counted in tenths of a second, so that 60 / wpm is a whole      *)
(* number for the speeds drawn here.  Page and word indices are 0-based as *)
(* in the source; TLA+ sequences are 1-based, hence the "+ 1" on access.   *)
(***************************************************************************)
EXTENDS Integers, Sequences, FiniteSets, TLC

VARIABLES
    UPLOADED_FILE_QUEUE,  \* the mailbox: NoFile or an uploaded buffer
    pages,                \* RsvpState.pages: sequence of pages, a page = sequence of words
    current_page_index,   \* RsvpState.current_page_index (0-based)
    current_word_index,   \* RsvpState.current_word_index (0-based)
    wpm,                  \* RsvpState.wpm
    is_playing,           \* RsvpState.is_playing
    timer,                \* RsvpState.timer (Bevy repeating Timer): its elapsed time
    text,                 \* the ReaderText entity's Text
    shown,                \* history: words written to the screen since the cursor was last set to (p, 0)
    start_page,           \* history: that p
    last,                 \* history: the system that ran last, with its inputs
    lock,                 \* the holder of the mailbox's Mutex, or "free"
    listener_data,        \* file_listener_system's local data (what lock.take() returned)
    overwritten,          \* history (SpecMailbox only): what the latest buffer replaced in the slot
    played,               \* history of the time played (kept by SpecChunks only)
    hands_off             \* TRUE once producer and user have gone away (SpecTerminates only)

vars == <<UPLOADED_FILE_QUEUE, pages, current_page_index, current_word_index,
          wpm, is_playing, timer, text, shown, start_page, last,
          lock, listener_data, overwritten, played, hands_off>>

\* the variables that one system run, taken as a single step, leaves alone
aside == <<lock, listener_data, overwritten, played, hands_off>>

rsvp == <<pages, current_page_index, current_word_index, wpm, is_playing, timer>>

----------------------------------------------------------------------------
(* Bounds of the model *)

\* an uploaded PDF has at most MaxPageNum pages
MaxPageNum == 2
\* a frame's time.delta() is 0..MaxDelta tenths of a second
MaxDelta == 2
\* SpecChunks follows playback for MaxTotal tenths of a second
MaxTotal == 12

(* Program constants *)

\* 60.0 in "60.0 / rsvp.wpm", in tenths of a second
SecondsPerMinute == 600
DefaultWpm == 300
\* egui::Slider::new(&mut rsvp.wpm, 30.0..=900.0)
WpmSliderMin == 30
WpmSliderMax == 900

----------------------------------------------------------------------------
(* Inputs *)

Whitespace == {" ", "\t", "\n"}

\* what doc.extract_text(&[page_num]) can give for one page: an error, or text
\* (a sequence of characters)
ExtractErr == [ok |-> FALSE, chars |-> <<>>]
BlankPage == [ok |-> TRUE, chars |-> <<"\t", "\n">>]
\* the text of page number k when it has words: every page has its own
PageChars(k) ==
    IF k = 1 THEN <<" ", "t", "o", " ", "\n", "g", "o", " ">>
    ELSE IF k = 2 THEN <<"h", "i">>
    ELSE <<"p", ToString(k), "\t", "x">>
RawPages(k) == { ExtractErr, BlankPage, [ok |-> TRUE, chars |-> PageChars(k)] }

\* an uploaded buffer: bytes lopdf cannot load, or a PDF with n pages; lopdf
\* numbers the pages of a loaded document 1..n, so doc is a sequence, doc[k]
\* being the extraction outcome of page number k
PdfsOfLength(n) ==
    { d \in [1..n -> UNION { RawPages(k) : k \in 1..n }] :
        \A k \in 1..n : d[k] \in RawPages(k) }
BadBytes == [load_ok |-> FALSE, doc |-> <<>>]
Uploads ==
    {BadBytes} \cup
    { [load_ok |-> TRUE, doc |-> d] : d \in UNION { PdfsOfLength(n) : n \in 0..MaxPageNum } }

\* the empty slot (None)
NoFile == [load_ok |-> FALSE, doc |-> <<ExtractErr>>]

Deltas == 0..MaxDelta

\* values the user can put into the page slider (1-based, as displayed); the
\* text field of the slider accepts numbers outside the range
PageRequests == 0..(MaxPageNum + 1)

\* values the user can put into the speed slider
WpmRequests == {300, 600}

----------------------------------------------------------------------------
(* Pure helpers *)

RECURSIVE SplitFrom(_, _, _, _)
\* str::split_whitespace over chars[i..], cur being the word under construction
SplitFrom(chars, i, cur, acc) ==
    IF i > Len(chars)
    THEN IF cur = "" THEN acc ELSE Append(acc, cur)
    ELSE IF chars[i] \in Whitespace
         THEN SplitFrom(chars, i + 1, "", IF cur = "" THEN acc ELSE Append(acc, cur))
         ELSE SplitFrom(chars, i + 1, cur \o chars[i], acc)

split_whitespace(chars) == SplitFrom(chars, 1, "", <<>>)

Min(S) == CHOOSE x \in S : \A y \in S : x <= y

RECURSIVE SortedKeys(_)
\* page_numbers: the keys of the page map, sorted ascending
SortedKeys(S) ==
    IF S = {} THEN <<>>
    ELSE <<Min(S)>> \o SortedKeys(S \ {Min(S)})

RECURSIVE CollectPagesKeepEmpty(_, _, _)
\* the loop without its "if !words.is_empty()"
CollectPagesKeepEmpty(doc, page_numbers, new_pages) ==
    IF page_numbers = <<>> THEN new_pages
    ELSE LET page_num == Head(page_numbers)
             words == split_whitespace(doc[page_num].chars)
         IN  CollectPagesKeepEmpty(doc, Tail(page_numbers),
                 IF doc[page_num].ok
                 THEN Append(new_pages, words)
                 ELSE new_pages)

RECURSIVE CollectPages(_, _, _)
\* the "for page_num in page_numbers" loop building new_pages
CollectPages(doc, page_numbers, new_pages) ==
    IF page_numbers = <<>> THEN new_pages
    ELSE LET page_num == Head(page_numbers)
             words == split_whitespace(doc[page_num].chars)
         IN  CollectPages(doc, Tail(page_numbers),
                 IF doc[page_num].ok /\ words # <<>>
                 THEN Append(new_pages, words)
                 ELSE new_pages)

NewPages(doc) == CollectPages(doc, SortedKeys(DOMAIN doc), <<>>)

\* 60.0 / rsvp.wpm
seconds_per_word(w) == SecondsPerMinute \div w

\* a slider that lets any value through
SliderNoClamp(v, lo, hi) == v

\* egui slider: a value outside the range is clamped to it
SliderClamp(v, lo, hi) == IF v < lo THEN lo ELSE IF v > hi THEN hi ELSE v

\* a timer that starts again from zero when it finishes
TimerTickRestart(t, dur, delta) ==
    LET e == t.elapsed + delta
    IN  IF e >= dur
        THEN [elapsed |-> 0, times_finished_this_tick |-> e \div dur]
        ELSE [elapsed |-> e, times_finished_this_tick |-> 0]

\* a timer that finishes only once its elapsed time exceeds the duration
TimerTickStrict(t, dur, delta) ==
    LET e == t.elapsed + delta
    IN  IF e > dur
        THEN [elapsed |-> e % dur, times_finished_this_tick |-> e \div dur]
        ELSE [elapsed |-> e, times_finished_this_tick |-> 0]

\* timer.set_duration(dur); timer.tick(delta) of a repeating Timer: the elapsed
\* time it keeps and the number of times it finished during this tick.  The
\* timer's duration and finish count are written here before they are read, so
\* only the elapsed time is carried from frame to frame.
TimerTick(t, dur, delta) ==
    LET e == t.elapsed + delta
    IN  IF e >= dur
        THEN [elapsed |-> e % dur, times_finished_this_tick |-> e \div dur]
        ELSE [elapsed |-> e, times_finished_this_tick |-> 0]

\* a timer that reports only a tick covering two intervals or more
just_finishedTwice(t) == t.times_finished_this_tick > 1

\* timer.just_finished()
just_finished(t) == t.times_finished_this_tick > 0

\* the value handed to the page progress bar is num / den
ProgressNum == current_word_index
ProgressDen ==
    IF current_page_index < Len(pages) THEN Len(pages[current_page_index + 1]) ELSE 1

----------------------------------------------------------------------------
(* Initial state: RsvpState::default, the empty mailbox, and setup's text *)

DefaultPages == << <<"Upload", "a", "PDF", "to", "begin.">> >>

Init ==
    /\ UPLOADED_FILE_QUEUE = NoFile
    /\ pages = DefaultPages
    /\ current_page_index = 0
    /\ current_word_index = 0
    /\ wpm = DefaultWpm
    /\ is_playing = FALSE
    /\ timer = [elapsed |-> 0]
    /\ text = "Ready"
    /\ shown = <<>>
    /\ start_page = 0
    /\ last = [op |-> "init", did |-> "default"]
    /\ lock = "free"
    /\ listener_data = NoFile
    /\ overwritten = [dropped |-> "none", polled |-> FALSE]
    /\ played = [total |-> 0, wpm |-> 0, steady |-> TRUE, catchup |-> FALSE]
    /\ hands_off = FALSE

----------------------------------------------------------------------------
(* Operations *)

CurrentPage == pages[current_page_index + 1]

\* a producer that leaves a buffer already in the slot where it is
pass_file_to_bevyKeepsFirst(data) ==
    /\ UPLOADED_FILE_QUEUE' = IF UPLOADED_FILE_QUEUE = NoFile
                              THEN data ELSE UPLOADED_FILE_QUEUE
    /\ last' = [op |-> "pass_file_to_bevy", did |-> "stored"]
    /\ UNCHANGED <<pages, current_page_index, current_word_index, wpm,
                   is_playing, timer, text, shown, start_page>>

\* pass_file_to_bevy(data): lock the slot and overwrite it
pass_file_to_bevy(data) ==
    /\ UPLOADED_FILE_QUEUE' = data
    /\ last' = [op |-> "pass_file_to_bevy", did |-> "stored"]
    /\ UNCHANGED <<pages, current_page_index, current_word_index, wpm,
                   is_playing, timer, text, shown, start_page>>

\* any document that loads is taken up
IngestOkAnyLoaded(data, new_pages) == data.load_ok

\* the upload is taken up: "if !new_pages.is_empty()" under "Ok(doc)"
IngestOk(data, new_pages) == data.load_ok /\ new_pages # <<>>

\* a replacement that leaves the word index where it was
IngestKeepsWord(new_pages) ==
    /\ pages' = new_pages
    /\ current_page_index' = 0
    /\ is_playing' = TRUE
    /\ shown' = <<>>
    /\ start_page' = 0
    /\ UNCHANGED <<current_word_index, wpm, timer, text>>

\* a replacement that also puts the speed back to its default
IngestResetsWpm(new_pages) ==
    /\ pages' = new_pages
    /\ current_page_index' = 0
    /\ current_word_index' = 0
    /\ is_playing' = TRUE
    /\ shown' = <<>>
    /\ start_page' = 0
    /\ wpm' = DefaultWpm
    /\ UNCHANGED <<timer, text>>

\* the replacement of the document
Ingest(new_pages) ==
    /\ pages' = new_pages
    /\ current_page_index' = 0
    /\ current_word_index' = 0
    /\ is_playing' = TRUE
    /\ shown' = <<>>
    /\ start_page' = 0
    /\ UNCHANGED <<wpm, timer, text>>

\* a look at the slot that leaves its content there
PeekSlot == UNCHANGED UPLOADED_FILE_QUEUE

\* lock.take(): the slot is left empty
TakeSlot == UPLOADED_FILE_QUEUE' = NoFile

\* the body of file_listener_system after lock.take() returned data: load,
\* extract and split the pages; replace the document if any page has words
ProcessUpload(data) ==
    /\ LET new_pages == NewPages(data.doc)
       IN  IF data = NoFile
           THEN /\ last' = [op |-> "file_listener_system", did |-> "nothing"]
                /\ UNCHANGED <<pages, current_page_index, current_word_index, wpm,
                               is_playing, timer, text, shown, start_page>>
           ELSE IF IngestOk(data, new_pages)
           THEN /\ last' = [op |-> "file_listener_system", did |-> "ingested"]
                /\ Ingest(new_pages)
           ELSE /\ last' = [op |-> "file_listener_system", did |-> "failed"]
                /\ UNCHANGED <<pages, current_page_index, current_word_index, wpm,
                               is_playing, timer, text, shown, start_page>>

\* file_listener_system as one step: lock the slot, take its content, process
\* it, and let the lock go at the end of the function
file_listener_system ==
    /\ TakeSlot
    /\ ProcessUpload(UPLOADED_FILE_QUEUE)

\* an early return that looks at the document only
TickSkippedIgnoresPause == pages = <<>>

\* the early return of rsvp_tick_system
TickSkipped == ~is_playing \/ pages = <<>>

\* a catch-up step: the word under the cursor is shown, the one after it skipped
ShowWordSkip ==
    /\ text' = CurrentPage[current_word_index + 1]
    /\ shown' = Append(shown, CurrentPage[current_word_index + 1])
    /\ current_word_index' = current_word_index + 2
    /\ UNCHANGED <<current_page_index, is_playing>>

\* "2. Advance Word": write the word under the cursor to the screen, step over it
ShowWord ==
    /\ text' = CurrentPage[current_word_index + 1]
    /\ shown' = Append(shown, CurrentPage[current_word_index + 1])
    /\ current_word_index' = current_word_index + 1
    /\ UNCHANGED <<current_page_index, is_playing>>

\* a change of page that never happens
NextPageStays ==
    UNCHANGED <<current_page_index, current_word_index, is_playing, text, shown>>

\* "Move to next page if available"
NextPage ==
    /\ current_page_index' = current_page_index + 1
    /\ current_word_index' = 0
    /\ UNCHANGED <<is_playing, text, shown>>

\* an end of book that leaves playback running
EndOfBookKeepsPlaying ==
    UNCHANGED <<is_playing, current_page_index, current_word_index, text, shown>>

\* "End of Book"
EndOfBook ==
    /\ is_playing' = FALSE
    /\ UNCHANGED <<current_page_index, current_word_index, text, shown>>

\* rsvp_tick_system with time.delta() = delta
rsvp_tick_system(delta) ==
    /\ UNCHANGED <<UPLOADED_FILE_QUEUE, pages, wpm, start_page>>
    /\ IF TickSkipped
       THEN /\ last' = [op |-> "rsvp_tick_system", did |-> "skipped"]
            /\ UNCHANGED <<current_page_index, current_word_index, is_playing,
                           timer, text, shown>>
       ELSE LET t == TimerTick(timer, seconds_per_word(wpm), delta)
            IN  /\ timer' = [elapsed |-> t.elapsed]
                /\ IF ~just_finished(t)
                   THEN /\ last' = [op |-> "rsvp_tick_system", did |-> "waited"]
                        /\ UNCHANGED <<current_page_index, current_word_index,
                                       is_playing, text, shown>>
                   ELSE IF current_word_index < Len(CurrentPage)
                   THEN /\ last' = [op |-> "rsvp_tick_system", did |-> "word",
                                 times |-> t.times_finished_this_tick]
                        /\ ShowWord
                   ELSE IF current_page_index + 1 < Len(pages)
                   THEN /\ last' = [op |-> "rsvp_tick_system", did |-> "page",
                                 times |-> t.times_finished_this_tick]
                        /\ NextPage
                   ELSE /\ last' = [op |-> "rsvp_tick_system", did |-> "end",
                                 times |-> t.times_finished_this_tick]
                        /\ EndOfBook

\* a page change that leaves the word index where it was
SeekToKeepsWord(page_display) ==
    /\ current_page_index' = page_display - 1
    /\ shown' = <<>>
    /\ start_page' = page_display - 1
    /\ UNCHANGED current_word_index

\* "User moved the slider": the page slider's value changed to page_display
SeekTo(page_display) ==
    /\ current_page_index' = page_display - 1
    /\ current_word_index' = 0
    /\ shown' = <<>>
    /\ start_page' = page_display - 1

\* a button that can only start playback
ToggledOnlyPlays(clicked) == clicked \/ is_playing

\* the Play / Pause button: is_playing after the frame
Toggled(clicked) == IF clicked THEN ~is_playing ELSE is_playing

\* ui_controls_system for one frame's input: whether the Play/Pause button was
\* clicked, the value put into the page slider (1-based, as displayed), the
\* value put into the speed slider.  Leaving a slider alone is putting its
\* present value into it.  A slider keeps its value inside its range, and
\* reports a change only when the value differs from the one it started with.
ui_controls_system(clicked, page_request, wpm_request) ==
    LET max_pages == Len(pages)
        page_display == SliderClamp(page_request, 1, max_pages)
        changed == page_display # current_page_index + 1
    IN  /\ last' = [op |-> "ui_controls_system", clicked |-> clicked,
                    page_request |-> page_request, wpm_request |-> wpm_request]
        /\ is_playing' = Toggled(clicked)
        /\ IF changed
           THEN SeekTo(page_display)
           ELSE UNCHANGED <<current_page_index, current_word_index, shown, start_page>>
        /\ wpm' = SliderClamp(wpm_request, WpmSliderMin, WpmSliderMax)
        /\ UNCHANGED <<UPLOADED_FILE_QUEUE, pages, timer, text>>

\* one frame's input to the control window reaches one widget: the button is
\* clicked, or a value is put into the page slider, or into the speed slider
UiInputs ==
    { <<TRUE, current_page_index + 1, wpm>> }
    \cup { <<FALSE, r, wpm>> : r \in PageRequests }
    \cup { <<FALSE, current_page_index + 1, w>> : w \in WpmRequests }

Next ==
    \/ \E data \in Uploads : pass_file_to_bevy(data) /\ UNCHANGED aside
    \/ file_listener_system /\ UNCHANGED aside
    \/ \E delta \in Deltas : rsvp_tick_system(delta) /\ UNCHANGED aside
    \/ \E in \in UiInputs :
          ui_controls_system(in[1], in[2], in[3]) /\ UNCHANGED aside

Spec == Init /\ [][Next]_vars

\* rsvp_tick_system with the history of the time played: the sum of the deltas
\* of the ticks that ran the timer, the speed they ran it at, whether that
\* speed was the same throughout, and whether some tick covered two
\* intervals or more
PlayedTick(delta) ==
    /\ TickSkipped \/ played.total + delta <= MaxTotal
    /\ rsvp_tick_system(delta)
    /\ played' =
         IF TickSkipped
         THEN played
         ELSE LET t == TimerTick(timer, seconds_per_word(wpm), delta)
              IN  [total |-> played.total + delta,
                   wpm |-> wpm,
                   steady |-> played.steady /\ played.wpm \in {0, wpm},
                   catchup |-> played.catchup \/ t.times_finished_this_tick >= 2]
    /\ UNCHANGED <<lock, listener_data, overwritten, hands_off>>

\* the reader playing the document it starts with: control window and ticks
NextChunks ==
    \/ \E delta \in Deltas : PlayedTick(delta)
    \/ \E in \in UiInputs :
          ui_controls_system(in[1], in[2], in[3]) /\ UNCHANGED aside

SpecChunks == Init /\ [][NextChunks]_vars

\* what the listener would make of each buffer: its pages, if it would ingest it
Outcome ==
    [ data \in Uploads |->
        IF IngestOk(data, NewPages(data.doc)) THEN NewPages(data.doc) ELSE <<>> ]

\* pass_file_to_bevy with the history of the slot: whether data replaces
\* another buffer there, and whether that one would have given a document and
\* not the one data gives
StoreOver(data) ==
    /\ pass_file_to_bevy(data)
    /\ overwritten' =
         IF UPLOADED_FILE_QUEUE = NoFile
         THEN [dropped |-> "none", polled |-> FALSE]
         ELSE IF UPLOADED_FILE_QUEUE = data
         THEN overwritten
         ELSE IF Outcome[UPLOADED_FILE_QUEUE] \notin {<<>>, Outcome[data]}
         THEN [dropped |-> "other document", polled |-> FALSE]
         ELSE [dropped |-> "same outcome", polled |-> FALSE]
    /\ UNCHANGED <<lock, listener_data, played, hands_off>>

\* file_listener_system with the history of the slot: whether the buffer it
\* takes had replaced another one
PollAfter ==
    /\ file_listener_system
    /\ overwritten' =
         IF UPLOADED_FILE_QUEUE = NoFile
         THEN [dropped |-> "none", polled |-> FALSE]
         ELSE [overwritten EXCEPT !.polled = (overwritten.dropped # "none")]
    /\ UNCHANGED <<lock, listener_data, played, hands_off>>

\* producer, listener and ticks, the control window left alone
NextMailbox ==
    \/ \E data \in Uploads : StoreOver(data)
    \/ PollAfter
    \/ \E delta \in Deltas : rsvp_tick_system(delta) /\ UNCHANGED aside

SpecMailbox == Init /\ [][NextMailbox]_vars

\* file_listener_system, first half: wait for the Mutex, keep its guard in
\* the local lock, and take the content of the slot
ListenerLocks ==
    /\ lock = "free"
    /\ lock' = "file_listener_system"
    /\ listener_data' = UPLOADED_FILE_QUEUE
    /\ TakeSlot
    /\ UNCHANGED <<pages, current_page_index, current_word_index, wpm,
                   is_playing, timer, text, shown, start_page, last,
                   overwritten, played, hands_off>>

\* file_listener_system, second half: process what was taken; the guard is
\* dropped, and the Mutex freed, where the function ends
ListenerProcesses ==
    /\ lock = "file_listener_system"
    /\ ProcessUpload(listener_data)
    /\ lock' = "free"
    /\ listener_data' = NoFile
    /\ UNCHANGED <<UPLOADED_FILE_QUEUE, overwritten, played, hands_off>>

\* pass_file_to_bevy waits for the Mutex before it stores
ProducerStores(data) ==
    /\ lock = "free"
    /\ pass_file_to_bevy(data)
    /\ UNCHANGED aside

\* the listener in two steps; the other two systems borrow RsvpState as it
\* does, and run when it is not running
NextLock ==
    \/ \E data \in Uploads : ProducerStores(data)
    \/ ListenerLocks
    \/ ListenerProcesses
    \/ \E delta \in Deltas :
          lock = "free" /\ rsvp_tick_system(delta) /\ UNCHANGED aside
    \/ \E in \in UiInputs :
          /\ lock = "free"
          /\ ui_controls_system(in[1], in[2], in[3])
          /\ UNCHANGED aside

SpecLock == Init /\ [][NextLock]_vars

\* producer and user go away, no upload waiting in the slot: from here on no
\* upload, no click, no slider
LetGo ==
    /\ ~hands_off
    /\ UPLOADED_FILE_QUEUE = NoFile
    /\ hands_off' = TRUE
    /\ UNCHANGED <<UPLOADED_FILE_QUEUE, pages, current_page_index,
                   current_word_index, wpm, is_playing, timer, text, shown,
                   start_page, last, lock, listener_data, overwritten, played>>

\* a frame after they went: rsvp_tick_system alone has something to do
QuietTick(delta) ==
    /\ hands_off
    /\ rsvp_tick_system(delta)
    /\ UNCHANGED aside

\* a frame in which time has passed
PositiveDeltas == Deltas \ {0}

\* before they go, the steps of Next; of the producer's stores those into the
\* empty slot are enough here, a store over a waiting buffer leading to no
\* state that these do not reach
NextTerminates ==
    \/ \E data \in Uploads :
          /\ ~hands_off
          /\ UPLOADED_FILE_QUEUE = NoFile
          /\ pass_file_to_bevy(data)
          /\ UNCHANGED aside
    \/ ~hands_off /\ file_listener_system /\ UNCHANGED aside
    \/ \E delta \in Deltas :
          ~hands_off /\ rsvp_tick_system(delta) /\ UNCHANGED aside
    \/ \E in \in UiInputs :
          /\ ~hands_off
          /\ ui_controls_system(in[1], in[2], in[3])
          /\ UNCHANGED aside
    \/ LetGo
    \/ \E delta \in Deltas : QuietTick(delta)

\* the Update schedule runs every frame, and time passes between frames
SpecTerminates ==
    /\ Init
    /\ [][NextTerminates]_vars
    /\ WF_vars(\E delta \in PositiveDeltas : QuietTick(delta))

\* values put into the speed slider that are no speed at all
InvalidWpmRequests == {0}

\* one frame's input, the speed slider being given any value
UiInputsPacing ==
    UiInputs
    \cup { <<FALSE, current_page_index + 1, w>> : w \in InvalidWpmRequests }

\* the reader before any upload: control window and ticks
NextPacing ==
    \/ \E delta \in Deltas : rsvp_tick_system(delta) /\ UNCHANGED aside
    \/ \E in \in UiInputsPacing :
          ui_controls_system(in[1], in[2], in[3]) /\ UNCHANGED aside

SpecPacing == Init /\ [][NextPacing]_vars

----------------------------------------------------------------------------
(* Properties *)

LastPageIndex == Len(pages) - 1

\* C1: the cursor is always inside the document: current_page_index is an
\* index of pages, current_word_index is between 0 and the length of the
\* current page inclusive, and the value handed to the progress bar
\* (ProgressNum / ProgressDen) is a fraction between 0 and 1.
CursorInvariant ==
    /\ current_page_index \in 0..LastPageIndex
    /\ current_word_index \in 0..Len(CurrentPage)
    /\ ProgressDen >= 1
    /\ 0 <= ProgressNum /\ ProgressNum <= ProgressDen

\* the cursor stands at its far end: behind the last word of the last page of
\* an uploaded two-page document, where a tick has just stopped playback
CursorInvariantWitness ==
    /\ Len(pages) = 2
    /\ current_page_index = 1
    /\ current_word_index = Len(pages[2])
    /\ last.op = "rsvp_tick_system"
    /\ last.did = "end"

\* C2: the stored document always has at least one page, and every stored
\* page has at least one word.
DocumentInvariant ==
    /\ Len(pages) >= 1
    /\ \A i \in 1..Len(pages) : Len(pages[i]) >= 1

\* an upload whose first page has no words was ingested: only its second page
\* is stored
DocumentInvariantWitness ==
    /\ last = [op |-> "file_listener_system", did |-> "ingested"]
    /\ pages = << split_whitespace(PageChars(2)) >>

\* the timer finishes in a tick of rsvp_tick_system with this delta
Fired(delta) == just_finished(TimerTick(timer, seconds_per_word(wpm), delta))

\* this step is a tick of rsvp_tick_system in which the timer finishes
TickFires == \E delta \in Deltas : rsvp_tick_system(delta) /\ Fired(delta)

\* C3: when a tick fires in Playing mode with the cursor behind the last word
\* of a page that has a successor, that same tick moves to the next page and
\* shows its first word, leaving the cursor at (page_index + 1, 1).
PageBoundaryEmitsInSameTick ==
    [][ (/\ is_playing
         /\ TickFires
         /\ current_word_index = Len(CurrentPage)
         /\ current_page_index + 1 < Len(pages))
        => (/\ current_page_index' = current_page_index + 1
            /\ current_word_index' = 1
            /\ text' = pages[current_page_index + 2][1]) ]_vars

RECURSIVE WordsOfPages(_, _, _)
\* the words of pages pp[from..to], in order
WordsOfPages(pp, from, to) ==
    IF from > to THEN <<>> ELSE pp[from] \o WordsOfPages(pp, from + 1, to)

\* the words a reader who started at (start_page, 0) has passed
WordsPassed ==
    WordsOfPages(pages, start_page + 1, current_page_index)
        \o SubSeq(CurrentPage, 1, current_word_index)

\* C4: the words written to the screen since the cursor was last put at
\* (p, 0) are exactly the words of page p, p+1, ... up to the cursor, in
\* document order, each once; and a tick that fires in Playing mode with a
\* word under the cursor shows that word and advances the cursor by one.
InOrderEmission ==
    /\ [](shown = WordsPassed)
    /\ [][ (/\ is_playing
             /\ TickFires
             /\ current_word_index < Len(CurrentPage))
            => (/\ text' = CurrentPage[current_word_index + 1]
                /\ shown' = Append(shown, text')
                /\ current_word_index' = current_word_index + 1
                /\ current_page_index' = current_page_index) ]_vars

\* playback from (0, 0) has shown the whole first page of a two-page document
\* and has just shown a word of the second
InOrderEmissionWitness ==
    /\ Len(pages) = 2
    /\ start_page = 0
    /\ current_page_index = 1
    /\ Len(shown) > Len(pages[1])
    /\ last.op = "rsvp_tick_system"
    /\ last.did = "word"

\* C5: when a tick fires in Playing mode with the cursor behind the last word
\* of the last page, playback pauses, nothing is shown, the cursor stays, and
\* the screen keeps the last word shown (the last word of the document).
EndOfDocumentPauses ==
    [][ (/\ is_playing
         /\ TickFires
         /\ current_page_index = LastPageIndex
         /\ current_word_index = Len(CurrentPage))
        => (/\ is_playing' = FALSE
            /\ UNCHANGED <<current_page_index, current_word_index, text, shown, pages>>
            /\ text = CurrentPage[Len(CurrentPage)]) ]_vars

\* a tick has just ended playback of the default document, its last word on
\* the screen
EndOfDocumentPausesWitness ==
    /\ last.op = "rsvp_tick_system"
    /\ last.did = "end"
    /\ ~is_playing
    /\ pages = DefaultPages
    /\ current_word_index = Len(CurrentPage)
    /\ text = "begin."

\* C6: a tick while Paused, whatever the frame's delta, changes nothing: not
\* the cursor, the mode, the document, the speed, the screen, nor the time
\* the timer has accumulated.
PausedTickIsNoOp ==
    [][ (/\ ~is_playing
         /\ \E delta \in Deltas : rsvp_tick_system(delta))
        => UNCHANGED <<UPLOADED_FILE_QUEUE, pages, current_page_index,
                       current_word_index, wpm, is_playing, timer, text, shown>> ]_vars

\* a tick has just run while paused in the middle of an interval, on a page
\* that still has words
PausedTickIsNoOpWitness ==
    /\ last = [op |-> "rsvp_tick_system", did |-> "skipped"]
    /\ ~is_playing
    /\ timer.elapsed > 0
    /\ current_word_index \in 1..(Len(CurrentPage) - 1)

\* a page the extraction of which gives at least one word
HasWords(raw) == raw.ok /\ \E i \in 1..Len(raw.chars) : raw.chars[i] \notin Whitespace

TextPageNumbers(doc) == { k \in DOMAIN doc : HasWords(doc[k]) }

\* the upload loads and some page of it has words
YieldsPage(data) == data.load_ok /\ TextPageNumbers(data.doc) # {}

\* the words of the pages that have any, by ascending page number
PagesWithWords(doc) ==
    LET K == TextPageNumbers(doc)
        Nth(i) == CHOOSE k \in K : Cardinality({ j \in K : j <= k }) = i
    IN  [ i \in 1..Cardinality(K) |-> split_whitespace(doc[Nth(i)].chars) ]

\* C7: when file_listener_system takes an upload that yields at least one
\* page with words, then whatever the cursor, the mode and the document were,
\* the document becomes the upload's pages, the cursor (0, 0), the mode Playing.
IngestionResetsPlayback ==
    [][ (/\ last'.op = "file_listener_system"
         /\ UPLOADED_FILE_QUEUE # NoFile
         /\ YieldsPage(UPLOADED_FILE_QUEUE))
        => (/\ pages' = PagesWithWords(UPLOADED_FILE_QUEUE.doc)
            /\ current_page_index' = 0
            /\ current_word_index' = 0
            /\ is_playing' = TRUE) ]_vars

\* a two-page upload has just replaced the default document in the middle of
\* its playback ("PDF" is still on the screen)
IngestionResetsPlaybackWitness ==
    /\ last = [op |-> "file_listener_system", did |-> "ingested"]
    /\ Len(pages) = 2
    /\ text = "PDF"
    /\ current_page_index = 0 /\ current_word_index = 0
    /\ is_playing

\* C8: when file_listener_system takes an upload that does not load, or no
\* page of which has words, the document, the cursor, the mode and the speed
\* (and the timer and the screen) stay exactly as they were.
FailedIngestionChangesNothing ==
    [][ (/\ last'.op = "file_listener_system"
         /\ UPLOADED_FILE_QUEUE # NoFile
         /\ ~YieldsPage(UPLOADED_FILE_QUEUE))
        => UNCHANGED <<pages, current_page_index, current_word_index,
                       is_playing, wpm, timer, text>> ]_vars

\* an upload has just failed during playback of the second page of an earlier
\* two-page upload, at a speed other than the default
FailedIngestionChangesNothingWitness ==
    /\ last = [op |-> "file_listener_system", did |-> "failed"]
    /\ Len(pages) = 2
    /\ current_page_index = 1 /\ current_word_index = 1
    /\ is_playing
    /\ wpm # DefaultWpm

\* this step is a frame of ui_controls_system in which only the page slider
\* got a value, r
PageSliderSet(r) ==
    /\ last'.op = "ui_controls_system"
    /\ ~last'.clicked
    /\ last'.wpm_request = wpm
    /\ last'.page_request = r

\* C9 as stated: putting a valid page p (displayed p + 1) into the page slider
\* sets the cursor to (p, 0), from any word index, and leaves mode, document
\* and speed unchanged.
SeekSetsCursor ==
    [][ \A r \in 1..Len(pages) :
          PageSliderSet(r)
          => (/\ current_page_index' = r - 1
              /\ current_word_index' = 0
              /\ UNCHANGED <<is_playing, pages, wpm>>) ]_vars

\* C9, amended: putting a valid page p other than the current page into the
\* page slider sets the cursor to (p, 0), from any word index, and leaves
\* mode, document and speed unchanged; putting the current page into it
\* leaves the cursor, word index included, unchanged.
SeekToOtherPageSetsCursor ==
    [][ \A r \in 1..Len(pages) :
          PageSliderSet(r)
          => (/\ UNCHANGED <<is_playing, pages, wpm>>
              /\ IF r # current_page_index + 1
                 THEN current_page_index' = r - 1 /\ current_word_index' = 0
                 ELSE UNCHANGED <<current_page_index, current_word_index>>) ]_vars

\* the page slider has just been moved to page 2 while the first word of page
\* 1 was on the screen and playback was running
SeekToOtherPageSetsCursorWitness ==
    /\ last.op = "ui_controls_system"
    /\ last.page_request = 2
    /\ current_page_index = 1 /\ current_word_index = 0
    /\ text = pages[1][1]
    /\ is_playing

\* C10: putting a value that is no valid page into the page slider leaves the
\* cursor (page index and word index) and the mode unchanged.
InvalidSeekRejected ==
    [][ \A r \in PageRequests \ (1..Len(pages)) :
          PageSliderSet(r)
          => UNCHANGED <<current_page_index, current_word_index, is_playing>> ]_vars

\* C15: every run of file_listener_system leaves the slot empty, whatever it
\* found there, so a buffer is handed to at most one run; a run that finds the
\* slot empty changes nothing of the engine; and a run ingests at most the one
\* buffer it found.
TakeAndClear ==
    [][ last'.op = "file_listener_system"
        => (/\ UPLOADED_FILE_QUEUE' = NoFile
            /\ UPLOADED_FILE_QUEUE = NoFile
                 => UNCHANGED <<pages, current_page_index, current_word_index,
                                wpm, is_playing, timer, text, shown>>
            /\ pages' # pages
                 => (/\ UPLOADED_FILE_QUEUE # NoFile
                     /\ pages' = PagesWithWords(UPLOADED_FILE_QUEUE.doc))) ]_vars

\* file_listener_system has just found the slot empty, after an earlier run
\* ingested an upload
TakeAndClearWitness ==
    /\ last = [op |-> "file_listener_system", did |-> "nothing"]
    /\ pages # DefaultPages
    /\ current_word_index > 0

\* C17: a successful ingestion leaves wpm, and so the interval of the ticks
\* that follow, as it was.
IngestionKeepsSpeed ==
    [][ (/\ last'.op = "file_listener_system"
         /\ pages' # pages)
        => (/\ wpm' = wpm
            /\ seconds_per_word(wpm') = seconds_per_word(wpm)) ]_vars

\* an upload has just been ingested at a speed other than the default
IngestionKeepsSpeedWitness ==
    /\ last = [op |-> "file_listener_system", did |-> "ingested"]
    /\ wpm # DefaultWpm

\* this step is a frame of ui_controls_system in which only the button was
\* clicked
ButtonClicked ==
    /\ last'.op = "ui_controls_system"
    /\ last'.clicked
    /\ last'.page_request = current_page_index + 1
    /\ last'.wpm_request = wpm

\* C18: a click on the Play / Pause button flips is_playing and changes
\* nothing else: not the cursor, the document, the speed, the screen, the
\* timer's elapsed time nor the mailbox (so a second click restores the state).
ToggleOnlyFlipsMode ==
    [][ ButtonClicked
        => (/\ is_playing' = ~is_playing
            /\ UNCHANGED <<UPLOADED_FILE_QUEUE, pages, current_page_index,
                           current_word_index, wpm, timer, text, shown>>) ]_vars

\* the button has just paused playback in the middle of a page and of an
\* interval
ToggleOnlyFlipsModeWitness ==
    /\ last.op = "ui_controls_system"
    /\ last.clicked
    /\ ~is_playing
    /\ current_word_index \in 1..(Len(CurrentPage) - 1)
    /\ timer.elapsed > 0

\* C19: a frame of ui_controls_system, speed change included, leaves the
\* timer's elapsed time alone; and when the elapsed time has reached the
\* interval of the present speed, the next tick in Playing mode, whatever its
\* delta (0 included), finishes the timer and takes its step (a word, a page
\* change or the end of the book).
SpeedChangeConsumesProgress ==
    /\ [][ last'.op = "ui_controls_system" => timer' = timer ]_vars
    /\ [][ (/\ is_playing
             /\ timer.elapsed >= seconds_per_word(wpm)
             /\ \E delta \in Deltas : rsvp_tick_system(delta))
            => (/\ <<current_page_index, current_word_index, is_playing>>'
                     # <<current_page_index, current_word_index, is_playing>>
                /\ timer'.elapsed < seconds_per_word(wpm)) ]_vars

\* the speed has just been raised in Playing mode, and the time already
\* elapsed is a whole interval of the new speed
SpeedChangeConsumesProgressWitness ==
    /\ last.op = "ui_controls_system"
    /\ last.wpm_request = wpm
    /\ is_playing
    /\ timer.elapsed > 0
    /\ timer.elapsed >= seconds_per_word(wpm)

\* C13: a tick in Playing mode whose timer finishes, however many intervals n
\* the elapsed time covers, takes exactly one step: one word shown, or one
\* change of page, or the pause at the end of the book; a tick whose timer does
\* not finish takes none.
FixedStepAdvance ==
    [][ \A delta \in Deltas :
          (is_playing /\ rsvp_tick_system(delta))
          => LET n == (timer.elapsed + delta) \div seconds_per_word(wpm)
                 cursor == <<current_page_index, current_word_index>>
             IN  IF n >= 1
                 THEN \/ /\ current_word_index < Len(CurrentPage)
                         /\ cursor' = <<current_page_index, current_word_index + 1>>
                         /\ shown' = Append(shown, CurrentPage[current_word_index + 1])
                         /\ text' = CurrentPage[current_word_index + 1]
                         /\ is_playing'
                      \/ /\ current_word_index = Len(CurrentPage)
                         /\ current_page_index + 1 < Len(pages)
                         /\ cursor' = <<current_page_index + 1, 0>>
                         /\ UNCHANGED <<shown, text>>
                         /\ is_playing'
                      \/ /\ current_word_index = Len(CurrentPage)
                         /\ current_page_index + 1 = Len(pages)
                         /\ UNCHANGED <<cursor, shown, text>>
                         /\ ~is_playing'
                 ELSE UNCHANGED <<cursor, shown, text, is_playing>> ]_vars

\* a tick has just covered two intervals or more and shown one word, and words
\* of the page are still to come
FixedStepAdvanceWitness ==
    /\ last.op = "rsvp_tick_system"
    /\ last.did = "word"
    /\ last.times >= 2
    /\ current_word_index < Len(CurrentPage)

\* C11: a frame that hands the speed control a speed of 0 or less is rejected:
\* wpm, and with it the interval of the ticks, stays as it was.
InvalidPacingRejected ==
    [][ (/\ last'.op = "ui_controls_system"
         /\ last'.wpm_request <= 0)
        => (/\ wpm' = wpm
            /\ seconds_per_word(wpm') = seconds_per_word(wpm)) ]_vars

\* what the code does keep: wpm stays within the slider's range, so the
\* interval 60 / wpm is positive
WpmInRange ==
    /\ wpm \in WpmSliderMin..WpmSliderMax
    /\ seconds_per_word(wpm) > 0

\* the interval of the ticks counted in played, and the number of whole
\* intervals in the time played
PlayedInterval == seconds_per_word(IF played.wpm = 0 THEN wpm ELSE played.wpm)
PlayedIntervals == played.total \div PlayedInterval

LastWriteWins ==
    /\ [][ \A data \in Uploads :
             StoreOver(data) => UPLOADED_FILE_QUEUE' = data ]_vars
    /\ [][ PollAfter
            => (/\ UPLOADED_FILE_QUEUE' = NoFile
                /\ pages' = IF UPLOADED_FILE_QUEUE # NoFile
                               /\ YieldsPage(UPLOADED_FILE_QUEUE)
                            THEN PagesWithWords(UPLOADED_FILE_QUEUE.doc)
                            ELSE pages) ]_vars

\* file_listener_system has just ingested a buffer that had replaced another
\* one in the slot, and the replaced one would have given another document
LastWriteWinsWitness ==
    /\ last = [op |-> "file_listener_system", did |-> "ingested"]
    /\ overwritten.polled
    /\ overwritten.dropped = "other document"
    /\ UPLOADED_FILE_QUEUE = NoFile

\* C16: while file_listener_system has a buffer that it took from the slot and
\* has not yet parsed and ingested, the mailbox's lock is free, so that
\* pass_file_to_bevy can store another buffer.
NoLockAcrossIngestion ==
    listener_data # NoFile
    => (/\ lock = "free"
        /\ \A data \in Uploads : ENABLED ProducerStores(data))

\* the cursor stands behind the last word of the last page
AtEndOfBook ==
    /\ current_page_index = LastPageIndex
    /\ current_word_index = Len(CurrentPage)

\* C20: once nothing but ticks happens, with ticks of positive delta among
\* them for ever, playback in Playing mode leads to Paused with the cursor
\* behind the last word of the last page; and a tick that fires in Playing mode
\* with the cursor there (after Play was clicked again) leads back to Paused
\* with nothing shown and the cursor where it was.
PlaybackTerminates ==
    /\ (hands_off /\ is_playing) ~> (hands_off /\ ~is_playing /\ AtEndOfBook)
    /\ [][ (is_playing /\ AtEndOfBook /\ TickFires)
            => (/\ ~is_playing'
                /\ AtEndOfBook'
                /\ UNCHANGED <<current_page_index, current_word_index,
                               shown, text>>) ]_vars

\* left alone, the ticks have played a two-page document to its end and paused
PlaybackTerminatesWitness ==
    /\ hands_off
    /\ last.op = "rsvp_tick_system"
    /\ last.did = "end"
    /\ ~is_playing
    /\ AtEndOfBook
    /\ Len(pages) = 2
    /\ Len(shown) = Len(CurrentPage)

====
